---- MODULE Spec2Model ----
(***************************************************************************)
(* One run of the prophetbots-cli binary (src/src/main.rs) over the        *)
(* library functions of src/src/lib.rs.                                    *)
(*                                                                         *)
(* main parses its argument, loads the configuration and then polls two    *)
(* futures under tokio::join!: fetch_token_metadata (metadata account      *)
(* read, then the off-chain HTTP GET, then the JSON decode, then the DNS   *)
(* lookup) and fetch_token_mintdata (mint account read).  Every action of  *)
(* the model is the code that runs between two await points.  The replies  *)
(* of the ledger RPC, of the web server and of the resolver are the        *)
(* environment: each reply action picks one of the outcomes the code       *)
(* distinguishes.                                                          *)
(*                                                                         *)
(* The report is written to a BufWriter over stdout; the ten short lines   *)
(* are buffered in memory, so the writeln! calls are modelled as           *)
(* succeeding.                                                             *)
(***************************************************************************)
EXTENDS Integers, Sequences, FiniteSets, TLC

VARIABLES
    argv,            \* the positional command-line argument
    pc,              \* position of main: parse, config, start, join, exited
    token_address,   \* cli.token_address once parsed
    meta_pc,         \* position of the fetch_token_metadata future
    metadata,        \* local `metadata` of fetch_token_metadata
    offchain_metadata, \* local `offchain_metadata` of fetch_token_metadata
    metadata_rest,   \* result of the fetch_token_metadata future
    mint_pc,         \* position of the fetch_token_mintdata future
    mintdata_res,    \* result of the fetch_token_mintdata future
    stdout,          \* lines written to standard output
    stderr,          \* diagnostic (outermost context first)
    exit_code,       \* process exit code, -1 while running
    log              \* external calls issued and their replies, in order

vars == <<argv, pc, token_address, meta_pc, metadata, offchain_metadata, metadata_rest,
          mint_pc, mintdata_res, stdout, stderr, exit_code, log>>

\* Largest record set the resolver returns in the model.
MaxRecords == 2

----------------------------------------------------------------------------
\* Option and Result values

None == [some |-> FALSE]
Some(v) == [some |-> TRUE, v |-> v]
Ok(v) == [ok |-> TRUE, v |-> v]
Err(chain) == [ok |-> FALSE, err |-> chain]
\* a join result that is not there yet
NotYet == [ok |-> FALSE, err |-> <<>>]

\* anyhow's with_context: a new outermost message on an error
with_context(res, msg) == IF res.ok THEN res ELSE Err(<<msg>> \o res.err)

UNAVAILABLE == "Not available"

----------------------------------------------------------------------------
\* Numbers to decimal text (Display for integers)

Digit(d) ==
    CASE d = 0 -> "0" [] d = 1 -> "1" [] d = 2 -> "2" [] d = 3 -> "3"
      [] d = 4 -> "4" [] d = 5 -> "5" [] d = 6 -> "6" [] d = 7 -> "7"
      [] d = 8 -> "8" [] d = 9 -> "9"

RECURSIVE to_string(_)
to_string(n) == IF n < 10 THEN Digit(n) ELSE to_string(n \div 10) \o Digit(n % 10)

----------------------------------------------------------------------------
\* Addresses.  A Pubkey is its byte array, named here by a small id; its
\* text form is the base58 string.

Pubkeys == {"usdc", "llama", "nonmint"}

Base58(k) ==
    CASE k = "usdc" -> "EPjFWdd5AufqSSqeM2qN1xzybapC8G4wEGGkZwyTDt1v"
      [] k = "llama" -> "9KgvborfMPc1nzhXe9N8Q9pKTt57YdBWt9VqHnibdqjC"
      [] k = "nonmint" -> "BJE5MMbqXjVwjAF7oxwPYXnTXDyspzZyt4vwenNw5ruG"

\* Pubkey::from_str as the clap value parser applies it
FromStr(s) ==
    IF \E k \in Pubkeys : Base58(k) = s
    THEN Ok(CHOOSE k \in Pubkeys : Base58(k) = s)
    ELSE Err(<<"invalid value">>)

Args == {Base58(k) : k \in Pubkeys} \cup {"asdf", ""}

----------------------------------------------------------------------------
\* Rendering of optional values

pubkey_to_string(pubkey) ==
    IF pubkey.some THEN Base58(pubkey.v) ELSE UNAVAILABLE

string_or_not_available_noempty(info_str) ==
    IF info_str.some THEN info_str.v ELSE UNAVAILABLE

string_or_not_available(info_str) ==
    IF info_str.some /\ info_str.v # "" THEN info_str.v ELSE UNAVAILABLE

----------------------------------------------------------------------------
\* What the environment can answer

\* A fixed-width, null-padded on-chain string: its text and the padding
Padded(text, pad) == [text |-> text, pad |-> pad]

\* trim_end_matches(char::from(0))
trim_end_matches(s) == s.text

\* Mint::unpack results (an uninitialized or mis-sized blob does not unpack)
MintRecords ==
    { [supply |-> 1, decimals |-> 0,
       mint_authority |-> None, freeze_authority |-> None],
      [supply |-> 4200, decimals |-> 6,
       mint_authority |-> Some("nonmint"), freeze_authority |-> Some("usdc")] }

\* Metadata::from_bytes results
MetadataRecords ==
    { [name |-> Padded("USD Coin", 24), symbol |-> Padded("USDC", 6),
       uri |-> Padded("", 200)],
      [name |-> Padded("Alessio, the Pleasant", 11), symbol |-> Padded("LLAMA", 5),
       uri |-> Padded("https://arweave.net/llama.json", 170)] }

\* OffChainMetadata::default()
DefaultOffChainMetadata == [description |-> None, image |-> None, website |-> None]

\* JSON documents that deserialize into OffChainMetadata
Documents ==
    { DefaultOffChainMetadata,
      [description |-> Some("A llama"), image |-> Some("https://arweave.net/img"),
       website |-> Some("https://sollamas.com")],
      [description |-> Some(""), image |-> None,
       website |-> Some("http://127.0.0.1")],
      [description |-> Some(UNAVAILABLE), image |-> Some(""),
       website |-> Some("not a url")],
      [description |-> None, image |-> Some("https://arweave.net/img"),
       website |-> Some("")],
      [description |-> Some("A llama"), image |-> None,
       website |-> Some("mailto:llama@sollamas.com")] }

\* Url::parse followed by Url::domain, on the websites of Documents
UrlParse(website) ==
    CASE website = "https://sollamas.com" -> Ok([domain |-> Some("sollamas.com")])
      [] website = "http://127.0.0.1" -> Ok([domain |-> None])
      [] website = "mailto:llama@sollamas.com" -> Ok([domain |-> None])
      [] OTHER -> Err(<<"relative URL without a base">>)

----------------------------------------------------------------------------
\* The log of external calls

Call(name) == [call |-> name, ev |-> "start"]
Reply(name, outcome) == [call |-> name, ev |-> outcome]
DnsAnswer(n) == [call |-> "lookup_ip", ev |-> "ok", n |-> n]

----------------------------------------------------------------------------
Init ==
    /\ argv \in Args
    /\ pc = "parse"
    /\ token_address = None
    /\ meta_pc = "idle"
    /\ metadata = None
    /\ offchain_metadata = None
    /\ metadata_rest = NotYet
    /\ mint_pc = "idle"
    /\ mintdata_res = NotYet
    /\ stdout = <<>>
    /\ stderr = <<>>
    /\ exit_code = -1
    /\ log = <<>>

\* ParseArgs falling back to a default address when the decode fails
ParseArgs_lossy ==
    /\ pc = "parse"
    /\ LET parsed == FromStr(argv) IN
       token_address' = Some(IF parsed.ok THEN parsed.v ELSE "nonmint")
    /\ pc' = "config"
    /\ UNCHANGED <<argv, meta_pc, metadata, offchain_metadata, metadata_rest, mint_pc,
                   mintdata_res, stdout, stderr, exit_code, log>>

\* main.rs: ProphetsCli::parse().  clap prints the value error and exits 2.
ParseArgs ==
    /\ pc = "parse"
    /\ LET parsed == FromStr(argv) IN
       IF parsed.ok
       THEN /\ token_address' = Some(parsed.v)
            /\ pc' = "config"
            /\ UNCHANGED <<stderr, exit_code>>
       ELSE /\ stderr' = parsed.err
            /\ exit_code' = 2
            /\ pc' = "exited"
            /\ UNCHANGED token_address
    /\ UNCHANGED <<argv, meta_pc, metadata, offchain_metadata, metadata_rest, mint_pc,
                   mintdata_res, stdout, log>>

\* main.rs: get_config().with_context(..)?
LoadConfig ==
    /\ pc = "config"
    /\ \E loaded \in BOOLEAN :
         LET cfg == with_context(
                      with_context(IF loaded THEN Ok("rpc_url") ELSE Err(<<"confy">>),
                                   "Failed to load configuration"),
                      "Unable to load CLI config") IN
         IF cfg.ok
         THEN /\ pc' = "start"
              /\ UNCHANGED <<stderr, exit_code>>
         ELSE /\ stderr' = cfg.err
              /\ exit_code' = 1
              /\ pc' = "exited"
    /\ UNCHANGED <<argv, token_address, meta_pc, metadata, offchain_metadata, metadata_rest,
                   mint_pc, mintdata_res, stdout, log>>

\* StartJoin awaiting the metadata future alone instead of joining the two
StartJoin_sequential ==
    /\ pc = "start"
    /\ pc' = "join"
    /\ meta_pc' = "account"
    /\ log' = log \o <<Call("metadata_account")>>
    /\ UNCHANGED <<argv, token_address, metadata, offchain_metadata, metadata_rest,
                   mint_pc, mintdata_res, stdout, stderr, exit_code>>

\* main.rs: first poll of tokio::join!.  Both futures run up to their first
\* await, the metadata one first: each issues its get_account_data call.
StartJoin ==
    /\ pc = "start"
    /\ pc' = "join"
    /\ meta_pc' = "account"
    /\ mint_pc' = "account"
    /\ log' = log \o <<Call("metadata_account"), Call("mint_account")>>
    /\ UNCHANGED <<argv, token_address, metadata, offchain_metadata, metadata_rest, mintdata_res,
                   stdout, stderr, exit_code>>

----------------------------------------------------------------------------
\* fetch_token_metadata

\* Replies of RpcClient::get_account_data followed by the layout decode
AccountReplies(records) ==
    {[kind |-> "rpc_error"], [kind |-> "bad_layout"]}
        \cup {[kind |-> "account", data |-> r] : r \in records}

\* fetch_on_chain_metadata: the two `?` of the function
fetch_on_chain_metadata(reply) ==
    CASE reply.kind = "rpc_error" ->
           Err(<<"Failed to load Metaplex metadata", "rpc error">>)
      [] reply.kind = "bad_layout" ->
           Err(<<"Failed to parse Metaplex metadata", "invalid layout">>)
      [] OTHER -> Ok(reply.data)

\* reqwest::get refuses a string that is no absolute URL before any I/O
IntoUrl(uri) == IF uri = "" THEN Err(<<"builder error">>) ELSE Ok(uri)

\* DnsDomain looking up a default host when the document has no website
DnsDomain_default(website) ==
    IF ~website.some THEN Some("localhost")
    ELSE LET parsed_url == UrlParse(website.v) IN
         IF parsed_url.ok THEN parsed_url.v.domain ELSE None

\* fetch_dns_records up to the resolver call: the domain to look up, if any
DnsDomain(website) ==
    IF ~website.some THEN None
    ELSE LET parsed_url == UrlParse(website.v) IN
         IF parsed_url.ok THEN parsed_url.v.domain ELSE None

\* the Ok((name, symbol, offchain_metadata, dns_records)) of fetch_token_metadata
TokenMetadata(md, offchain, dns_records) ==
    Ok([name |-> trim_end_matches(md.name),
        symbol |-> trim_end_matches(md.symbol),
        offchain_data |-> offchain,
        dns_records |-> dns_records])

\* fetch_token_metadata from the point where the off-chain document is
\* settled: fetch_dns_records either awaits the resolver or returns None
AfterOffChain(md, offchain, lg) ==
    /\ offchain_metadata' = Some(offchain)
    /\ IF DnsDomain(offchain.website).some
       THEN /\ meta_pc' = "dns"
            /\ log' = lg \o <<Call("lookup_ip")>>
            /\ UNCHANGED metadata_rest
       ELSE /\ meta_pc' = "done"
            /\ log' = lg
            /\ metadata_rest' = TokenMetadata(md, offchain, None)

\* the metadata account answers: fetch_on_chain_metadata returns, and on
\* success fetch_off_chain_metadata starts the GET of the trimmed uri
MetaAccountReply ==
    /\ pc = "join"
    /\ meta_pc = "account"
    /\ \E reply \in AccountReplies(MetadataRecords) :
         LET res == fetch_on_chain_metadata(reply) IN
         IF ~res.ok
         THEN /\ metadata_rest' = res
              /\ meta_pc' = "done"
              /\ log' = log \o <<Reply("metadata_account", "err")>>
              /\ UNCHANGED <<metadata, offchain_metadata>>
         ELSE LET lg == log \o <<Reply("metadata_account", "ok"), Call("http_get")>> IN
              /\ metadata' = Some(res.v)
              /\ IF IntoUrl(trim_end_matches(res.v.uri)).ok
                 THEN /\ meta_pc' = "http"
                      /\ log' = lg
                      /\ UNCHANGED <<metadata_rest, offchain_metadata>>
                 ELSE AfterOffChain(res.v, DefaultOffChainMetadata,
                                    lg \o <<Reply("http_get", "err")>>)
    /\ UNCHANGED <<argv, pc, token_address, mint_pc, mintdata_res,
                   stdout, stderr, exit_code>>

\* HttpReply with the transport failure propagated by `?` instead of
\* unwrap_or(default)
HttpReply_fatal ==
    /\ pc = "join"
    /\ meta_pc = "http"
    /\ \E sent \in BOOLEAN :
         IF sent
         THEN /\ meta_pc' = "json"
              /\ log' = log \o <<Reply("http_get", "ok")>>
              /\ UNCHANGED <<metadata_rest, offchain_metadata>>
         ELSE /\ meta_pc' = "done"
              /\ log' = log \o <<Reply("http_get", "err")>>
              /\ metadata_rest' = Err(<<"Failed to load offchain metadata">>)
              /\ UNCHANGED offchain_metadata
    /\ UNCHANGED <<argv, pc, token_address, metadata, mint_pc, mintdata_res,
                   stdout, stderr, exit_code>>

\* the GET answers: a transport failure is swallowed by unwrap_or(default),
\* a response goes on to response.json()
HttpReply ==
    /\ pc = "join"
    /\ meta_pc = "http"
    /\ \E sent \in BOOLEAN :
         IF sent
         THEN /\ meta_pc' = "json"
              /\ log' = log \o <<Reply("http_get", "ok")>>
              /\ UNCHANGED <<metadata_rest, offchain_metadata>>
         ELSE AfterOffChain(metadata.v, DefaultOffChainMetadata,
                            log \o <<Reply("http_get", "err")>>)
    /\ UNCHANGED <<argv, pc, token_address, metadata, mint_pc, mintdata_res,
                   stdout, stderr, exit_code>>

\* the body is read and decoded: a body that is no JSON document of the
\* schema is swallowed by unwrap_or(default) as well
JsonReply ==
    /\ pc = "join"
    /\ meta_pc = "json"
    /\ \E body \in {Err(<<"Failed to parse offchain metadata into JSON">>)}
                      \cup {Ok(d) : d \in Documents} :
         AfterOffChain(metadata.v,
                       IF body.ok THEN body.v ELSE DefaultOffChainMetadata,
                       log \o <<Reply("json", IF body.ok THEN "ok" ELSE "err")>>)
    /\ UNCHANGED <<argv, pc, token_address, metadata, mint_pc, mintdata_res,
                   stdout, stderr, exit_code>>

\* answers of resolver.lookup_ip: an error, or a set of records
LookupReplies == {[ok |-> FALSE]} \cup {[ok |-> TRUE, n |-> n] : n \in 0..MaxRecords}

\* dns_records_of taking an empty record set for a failure
dns_records_of_nonempty(response) ==
    IF response.ok /\ response.n > 0 THEN Some(to_string(response.n)) ELSE None

\* fetch_dns_records after the resolver call
dns_records_of(response) ==
    IF response.ok THEN Some(to_string(response.n)) ELSE None

\* the resolver answers
DnsReply ==
    /\ pc = "join"
    /\ meta_pc = "dns"
    /\ \E response \in LookupReplies :
         /\ metadata_rest' = TokenMetadata(metadata.v, offchain_metadata.v,
                                           dns_records_of(response))
         /\ log' = log \o <<IF response.ok THEN DnsAnswer(response.n)
                                         ELSE Reply("lookup_ip", "err")>>
    /\ meta_pc' = "done"
    /\ UNCHANGED <<argv, pc, token_address, metadata, offchain_metadata, mint_pc,
                   mintdata_res, stdout, stderr, exit_code>>

----------------------------------------------------------------------------
\* fetch_token_mintdata

fetch_token_mintdata(reply) ==
    CASE reply.kind = "rpc_error" ->
           Err(<<"Failed to load mint account data", "rpc error">>)
      [] reply.kind = "bad_layout" ->
           Err(<<"Failed to parse mint account data", "invalid layout">>)
      [] OTHER -> Ok(reply.data)

\* MintAccountReply issuing the read again after a transport error
MintAccountReply_retry ==
    /\ pc = "join"
    /\ mint_pc = "account"
    /\ \E reply \in AccountReplies(MintRecords) :
         IF reply.kind = "rpc_error" /\ Len(log) < 12
         THEN /\ log' = log \o <<Reply("mint_account", "err"), Call("mint_account")>>
              /\ UNCHANGED <<mint_pc, mintdata_res>>
         ELSE /\ mintdata_res' = fetch_token_mintdata(reply)
              /\ log' = log \o <<Reply("mint_account",
                                       IF reply.kind = "account" THEN "ok" ELSE "err")>>
              /\ mint_pc' = "done"
    /\ UNCHANGED <<argv, pc, token_address, meta_pc, metadata, offchain_metadata,
                   metadata_rest, stdout, stderr, exit_code>>


MintAccountReply ==
    /\ pc = "join"
    /\ mint_pc = "account"
    /\ \E reply \in AccountReplies(MintRecords) :
         /\ mintdata_res' = fetch_token_mintdata(reply)
         /\ log' = log \o <<Reply("mint_account",
                                  IF reply.kind = "account" THEN "ok" ELSE "err")>>
    /\ mint_pc' = "done"
    /\ UNCHANGED <<argv, pc, token_address, meta_pc, metadata, offchain_metadata,
                   metadata_rest, stdout, stderr, exit_code>>

----------------------------------------------------------------------------
\* main after the join

MetadataInvalid ==
    "Failed to retrieve token metadata, it's likely because the token address is invalid"
MintInvalid ==
    "Failed to retrieve token mint data, it's likely because the token address is invalid"

\* the ten writeln! of main
Report(md, mintdata) ==
    << "Token Name: " \o md.name,
       "Token Symbol: " \o md.symbol,
       "Total Supply: " \o to_string(mintdata.supply),
       "Decimals: " \o to_string(mintdata.decimals),
       "Mint Authority: " \o pubkey_to_string(mintdata.mint_authority),
       "Freeze Authority: " \o pubkey_to_string(mintdata.freeze_authority),
       "Token Description: " \o string_or_not_available(md.offchain_data.description),
       "Token Image: " \o string_or_not_available(md.offchain_data.image),
       "Token Website: " \o string_or_not_available(md.offchain_data.website),
       "Number of DNS records: " \o string_or_not_available(md.dns_records) >>

\* JoinReady as tokio::try_join! has it: the first error ends the join
JoinReady_try ==
    \/ meta_pc = "done" /\ mint_pc = "done"
    \/ meta_pc = "done" /\ ~metadata_rest.ok
    \/ mint_pc = "done" /\ ~mintdata_res.ok

\* tokio::join! returns once both futures have returned
JoinReady == meta_pc = "done" /\ mint_pc = "done"

\* Finish with the mint result examined before the metadata result
Finish_mint_first ==
    /\ pc = "join"
    /\ JoinReady
    /\ LET meta == with_context(metadata_rest, MetadataInvalid)
           mint == with_context(mintdata_res, MintInvalid) IN
       IF ~mint.ok
       THEN /\ stderr' = mint.err
            /\ exit_code' = 1
            /\ UNCHANGED stdout
       ELSE IF ~meta.ok
       THEN /\ stderr' = meta.err
            /\ exit_code' = 1
            /\ UNCHANGED stdout
       ELSE /\ stdout' = Report(meta.v, mint.v)
            /\ exit_code' = 0
            /\ UNCHANGED stderr
    /\ pc' = "exited"
    /\ UNCHANGED <<argv, token_address, meta_pc, metadata, offchain_metadata,
                   metadata_rest, mint_pc, mintdata_res, log>>

\* Finish with the name and symbol written before the mint result is examined
Finish_early_lines ==
    /\ pc = "join"
    /\ JoinReady
    /\ LET meta == with_context(metadata_rest, MetadataInvalid)
           mint == with_context(mintdata_res, MintInvalid) IN
       IF ~meta.ok
       THEN /\ stderr' = meta.err
            /\ exit_code' = 1
            /\ UNCHANGED stdout
       ELSE IF ~mint.ok
       THEN /\ stderr' = mint.err
            /\ exit_code' = 1
            /\ stdout' = << "Token Name: " \o meta.v.name,
                            "Token Symbol: " \o meta.v.symbol >>
       ELSE /\ stdout' = Report(meta.v, mint.v)
            /\ exit_code' = 0
            /\ UNCHANGED stderr
    /\ pc' = "exited"
    /\ UNCHANGED <<argv, token_address, meta_pc, metadata, offchain_metadata,
                   metadata_rest, mint_pc, mintdata_res, log>>

\* main from the return of the join: the two `?`, then the report
Finish ==
    /\ pc = "join"
    /\ JoinReady
    /\ LET meta == with_context(metadata_rest, MetadataInvalid)
           mint == with_context(mintdata_res, MintInvalid) IN
       IF ~meta.ok
       THEN /\ stderr' = meta.err
            /\ exit_code' = 1
            /\ UNCHANGED stdout
       ELSE IF ~mint.ok
       THEN /\ stderr' = mint.err
            /\ exit_code' = 1
            /\ UNCHANGED stdout
       ELSE /\ stdout' = Report(meta.v, mint.v)
            /\ exit_code' = 0
            /\ UNCHANGED stderr
    /\ pc' = "exited"
    /\ UNCHANGED <<argv, token_address, meta_pc, metadata, offchain_metadata,
                   metadata_rest, mint_pc, mintdata_res, log>>

Next ==
    \/ ParseArgs
    \/ LoadConfig
    \/ StartJoin
    \/ MetaAccountReply
    \/ HttpReply
    \/ JsonReply
    \/ DnsReply
    \/ MintAccountReply
    \/ Finish

Spec == Init /\ [][Next]_vars

\* the join returns when both futures have: main is then scheduled
FairSpec == Spec /\ WF_vars(Finish)

----------------------------------------------------------------------------
\* Vocabulary of the properties

Has(c, e) == \E i \in DOMAIN log : log[i].call = c /\ log[i].ev = e
Count(c, e) == Cardinality({i \in DOMAIN log : log[i].call = c /\ log[i].ev = e})
\* every entry (c, e) of the log has an entry (c2, e2) before it
After(c, e, c2, e2) ==
    \A i \in DOMAIN log :
        (log[i].call = c /\ log[i].ev = e)
            => \E j \in 1..(i - 1) : log[j].call = c2 /\ log[j].ev = e2

Exited == pc = "exited"
Done == Exited /\ exit_code = 0 /\ Len(stdout) = 10 /\ stderr = <<>>
Failed == Exited /\ exit_code # 0 /\ stderr # <<>>

MintReadOk == Has("mint_account", "ok")
MintReadFailed == Has("mint_account", "err")
MetaReadOk == Has("metadata_account", "ok")
MetaReadFailed == Has("metadata_account", "err")
OffChainFailed == Has("http_get", "err") \/ Has("json", "err")

ExternalCalls == {"metadata_account", "mint_account", "http_get", "lookup_ip"}

NA(label) == label \o UNAVAILABLE

----------------------------------------------------------------------------
\* C1: a run whose mint read and metadata read both succeeded exits only as
\* Done (exit code 0, the ten report lines, no diagnostic), whatever the
\* HTTP fetch, the JSON decode and the DNS lookup answered; when the
\* off-chain fetch failed, description, image, website and DNS count are
\* rendered "Not available".
C1_OffChainFailureDegrades ==
    (Exited /\ MintReadOk /\ MetaReadOk) =>
        /\ Done
        /\ OffChainFailed =>
             /\ stdout[7] = NA("Token Description: ")
             /\ stdout[8] = NA("Token Image: ")
             /\ stdout[9] = NA("Token Website: ")
             /\ stdout[10] = NA("Number of DNS records: ")

C1_Witness == Done /\ MintReadOk /\ MetaReadOk /\ Has("http_get", "err")

\* C2: once the mint read or the metadata read has failed nothing is ever
\* written to stdout, and the run exits only with a nonzero code and a
\* diagnostic whose outermost message says the token address is likely
\* invalid.
C2_OnChainFailureIsFatal ==
    (MintReadFailed \/ MetaReadFailed) =>
        /\ stdout = <<>>
        /\ Exited =>
             /\ exit_code # 0
             /\ stderr # <<>>
             /\ stderr[1] \in {MetadataInvalid, MintInvalid}

C2_Witness == Exited /\ MintReadFailed /\ MetaReadOk /\ Has("http_get", "ok")

C4_DnsCountOrUnavailable ==
    Done =>
        LET website == metadata_rest.v.offchain_data.website
            resolvable == /\ website.some
                          /\ UrlParse(website.v).ok
                          /\ UrlParse(website.v).v.domain.some
        IN /\ stdout[10] # NA("Number of DNS records: ")
                <=> (resolvable /\ Has("lookup_ip", "ok"))
           /\ \A i \in DOMAIN log :
                (log[i].call = "lookup_ip" /\ log[i].ev = "ok") =>
                    /\ stdout[10] = "Number of DNS records: " \o to_string(log[i].n)
                    /\ log[i].n = 0 => stdout[10] = "Number of DNS records: 0"

C4_Witness ==
    /\ Done
    /\ \E i \in DOMAIN log : log[i] = DnsAnswer(0)

\* C5: when the argument does not decode to an address, the run issues no
\* external call and prints nothing to stdout, and it exits from the
\* argument parse with a nonzero code and the "invalid value" diagnostic.
C5_InvalidAddressStopsEarly ==
    (\A k \in Pubkeys : Base58(k) # argv) =>
        /\ log = <<>>
        /\ stdout = <<>>
        /\ pc \in {"parse", "exited"}
        /\ Exited => exit_code # 0 /\ stderr = <<"invalid value">>

C5_Witness == Exited /\ argv = "asdf" /\ exit_code # 0

\* C6: every external call is issued at most once in a run.
C6_NoRetries == \A c \in ExternalCalls : Count(c, "start") <= 1

C6_Witness ==
    /\ Exited
    /\ MintReadFailed
    /\ Has("http_get", "err")
    /\ \A c \in {"metadata_account", "mint_account", "http_get"} : Count(c, "start") = 1

\* C7: the run does not exit from the join while the mint-data fetch or the
\* metadata pipeline is still pending, also when the other has failed; an
\* exited run is exactly one of Done and Failed; and once both have
\* completed the run does exit.
C7_JoinWaitsForBoth ==
    /\ [](Exited => /\ meta_pc \in {"idle", "done"}
                    /\ mint_pc \in {"idle", "done"}
                    /\ Done # Failed)
    /\ ((pc = "join" /\ meta_pc = "done" /\ mint_pc = "done") ~> Exited)

C7_Witness ==
    /\ pc = "join"
    /\ MintReadFailed
    /\ mint_pc = "done"
    /\ meta_pc \in {"http", "json", "dns"}

\* the optional strings of a Done run, and the optional authorities, each
\* with the report line that renders it
OptionalStrings ==
    << <<metadata_rest.v.offchain_data.description, 7, "Token Description: ">>,
       <<metadata_rest.v.offchain_data.image, 8, "Token Image: ">>,
       <<metadata_rest.v.offchain_data.website, 9, "Token Website: ">>,
       <<metadata_rest.v.dns_records, 10, "Number of DNS records: ">> >>
OptionalAuthorities ==
    << <<mintdata_res.v.mint_authority, 5, "Mint Authority: ">>,
       <<mintdata_res.v.freeze_authority, 6, "Freeze Authority: ">> >>

\* C8 as stated: an optional string is rendered "Not available" exactly when
\* it is absent or empty and is otherwise rendered unchanged; an authority is
\* rendered "Not available" exactly when it is absent and otherwise as its
\* address text.
C8_Original ==
    Done =>
        /\ \A i \in DOMAIN OptionalStrings :
             LET o == OptionalStrings[i][1]
                 line == stdout[OptionalStrings[i][2]]
                 label == OptionalStrings[i][3]
                 blank == IF o.some THEN o.v = "" ELSE TRUE
             IN /\ (line = NA(label)) <=> blank
                /\ ~blank => line = label \o o.v
        /\ \A i \in DOMAIN OptionalAuthorities :
             LET a == OptionalAuthorities[i][1]
                 line == stdout[OptionalAuthorities[i][2]]
                 label == OptionalAuthorities[i][3]
             IN /\ (line = NA(label)) <=> ~a.some
                /\ a.some => line = label \o Base58(a.v)

\* C8 amended: an optional string is rendered "Not available" whenever it is
\* absent or empty and is otherwise rendered unchanged, so the rendering is
\* "Not available" exactly when the value is absent, empty or that very
\* text; an authority is rendered "Not available" exactly when it is absent
\* and otherwise as its address text.
C8_RenderingOfOptionals ==
    Done =>
        /\ \A i \in DOMAIN OptionalStrings :
             LET o == OptionalStrings[i][1]
                 line == stdout[OptionalStrings[i][2]]
                 label == OptionalStrings[i][3]
                 blank == IF o.some THEN o.v = "" ELSE TRUE
             IN /\ blank => line = NA(label)
                /\ ~blank => line = label \o o.v
                /\ (line = NA(label)) <=> (blank \/ o.v = UNAVAILABLE)
        /\ \A i \in DOMAIN OptionalAuthorities :
             LET a == OptionalAuthorities[i][1]
                 line == stdout[OptionalAuthorities[i][2]]
                 label == OptionalAuthorities[i][3]
             IN /\ (line = NA(label)) <=> ~a.some
                /\ a.some => line = label \o Base58(a.v)

C8_Witness ==
    /\ Done
    /\ metadata_rest.v.offchain_data.description = Some("")
    /\ metadata_rest.v.offchain_data.image = None
    /\ mintdata_res.v.mint_authority.some

\* C9: the resolver call is started only after the HTTP fetch has answered
\* and its body has decoded, with a website that is a field of a fetched
\* document; when the off-chain fetch failed or the document has no
\* website, no resolver call is made.
C9_DnsAfterOffChain ==
    /\ After("lookup_ip", "start", "http_get", "ok")
    /\ After("lookup_ip", "start", "json", "ok")
    /\ Has("lookup_ip", "start") =>
         /\ offchain_metadata.some
         /\ offchain_metadata.v \in Documents
         /\ offchain_metadata.v.website.some
    /\ OffChainFailed => ~Has("lookup_ip", "start")
    /\ (offchain_metadata.some /\ ~offchain_metadata.v.website.some)
         => ~Has("lookup_ip", "start")

C9_Witness ==
    /\ Has("lookup_ip", "start")
    /\ meta_pc = "dns"

\* C10: the diagnostic of an exited run names the token metadata only if the
\* metadata read failed and the token mint data only if the mint read
\* failed; a run that exits after an on-chain read failed names one of the
\* two, and the metadata one when both reads failed.
C10_DiagnosticNamesFailedRead ==
    (Exited /\ stderr # <<>>) =>
        /\ stderr[1] = MetadataInvalid => MetaReadFailed
        /\ stderr[1] = MintInvalid => MintReadFailed /\ ~MetaReadFailed
        /\ MetaReadFailed => stderr[1] = MetadataInvalid
        /\ (MintReadFailed /\ ~MetaReadFailed) => stderr[1] = MintInvalid

C10_Witness == Failed /\ MetaReadFailed /\ MintReadFailed

====
